---- MODULE Spec2Model ----
(***************************************************************************)
(* PaymentEscrow (src/contracts/PaymentEscrow.sol): the payment registry,  *)
(* its lifecycle state machine, the access-control modifiers, the fee      *)
(* policy and the owner withdrawal, over the LeaseToken ledger.            *)
(*                                                                         *)
(* One action per public function.  A Solidity call either returns or      *)
(* reverts; a revert rolls back every storage write, every ledger write    *)
(* and every event of the call, so a reverted call changes only           *)
(* `receipt`, the receipt of the last transaction (status, logs, return).  *)
(***************************************************************************)
EXTENDS Integers, Sequences, FiniteSets, TLC

\* ------------------------------------------------------------------ bounds
MaxPayments == 1   \* createPayment is taken only while numOfPayments < MaxPayments
MaxAmount == 1     \* payment amounts and the tenant's initial tokens range over 0..MaxAmount
MaxFee == 1        \* the fees given to the constructor and the setters range over 0..MaxFee

\* -------------------------------------------------------------- identities
Null == "0x0"              \* address(0)
Deployer == "deployer"     \* msg.sender of the constructor
Marketplace == "marketplace"
DisputeDAO == "dao"
Tenant == "tenant"
Landlord == "landlord"
Escrow == "escrow"         \* address(this)
Other == "other"           \* an account outside the rental

Address == {Deployer, Marketplace, DisputeDAO, Tenant, Landlord, Escrow, Other}
\* accounts that send transactions (the contract never calls itself)
Sender == {Deployer, Marketplace, DisputeDAO, Tenant}
\* the two sides of a rental payment
Party == {Tenant, Landlord}
\* identities offered to setRentalMarketplaceAddress and setRentDisputeDAOAddress
MarketplaceInput == {Null, Marketplace, DisputeDAO}
DisputeDAOInput == {Null, DisputeDAO}

Amount == 0..MaxAmount
Fee == 0..MaxFee
PaymentId == 0..MaxPayments

\* ------------------------------------------------------------------ state
VARIABLES
    numOfPayments,             \* uint256 numOfPayments
    protectionFee,             \* uint256 protectionFee
    commissionFee,             \* uint256 commissionFee
    payments,                  \* mapping(uint256 => Payment)
    owner,                     \* address owner
    rentalMarketplaceAddress,  \* address rentalMarketplaceAddress
    rentDisputeDAOAddress,     \* address rentDisputeDAOAddress
    balances,                  \* LeaseToken: balance of every account
    allowance,                 \* LeaseToken: allowance[<<owner, spender>>], a party's to the escrow
    receipt                    \* the last transaction: status, emitted events, return value

vars == <<numOfPayments, protectionFee, commissionFee, payments, owner,
          rentalMarketplaceAddress, rentDisputeDAOAddress, balances, allowance,
          receipt>>

\* enum PaymentStatus
PENDING == "PENDING"
PAID == "PAID"
RELEASED == "RELEASED"
REFUNDED == "REFUNDED"
PaymentStatus == {PENDING, PAID, RELEASED, REFUNDED}

\* struct Payment
Payment(_payer, _payee, _amount, _status) ==
    [payer |-> _payer, payee |-> _payee, amount |-> _amount, status |-> _status]

\* the value a mapping slot holds before it is written
ZeroPayment == Payment(Null, Null, 0, PENDING)

\* ---------------------------------------------------------- call outcomes
OK == "ok"
ErrOnlyOwner == "Only owner can call this function"
ErrOnlyRentalMarketplace == "Only RentalMarketplace can call this function"
ErrOnlyMarketplaceOrDAO == "Only RentalMarketplace or RentDisputeDAO can call this function"
ErrBalance == "Payer does not have enough balance"
ErrNotExists == "Payment does not exist"
ErrNotPending == "Payment has already been made"
ErrNotPaid == "Payment has not been made yet"
ErrProtectionFee == "Protection fee must be greater than 0"
ErrCommissionFee == "Commission fee must be greater than 0"
ErrMarketplaceAddress == "Invalid Rentalmarketpalce address"
ErrDAOAddress == "Invalid RentDisputeDAO address"
ErrUnderflow == "Panic(0x11)"          \* checked uint256 subtraction below zero
ErrLedger == "LeaseToken revert"       \* the ledger rejected the transfer

\* ----------------------------------------------------------------- ledger
\* The ledger capability: balance query, authorize, transfer, transfer-from.
\* A ledger value is [balances, allowance, err]; err # OK once a call reverted.
Ledger == [balances |-> balances, allowance |-> allowance, err |-> OK]

checkLeaseToken(L, _who) == L.balances[_who]

Move(b, _from, _to, _value) ==
    LET debited == [b EXCEPT ![_from] = @ - _value]
    IN  [debited EXCEPT ![_to] = @ + _value]

approveLeaseToken(L, _owner, _spender, _value) ==
    IF L.err # OK THEN L
    ELSE [L EXCEPT !.allowance[<<_owner, _spender>>] = _value]

transferLeaseToken(L, _from, _to, _value) ==
    IF L.err # OK THEN L
    ELSE IF L.balances[_from] < _value THEN [L EXCEPT !.err = ErrLedger]
    ELSE [L EXCEPT !.balances = Move(L.balances, _from, _to, _value)]

transferLeaseTokenFrom(L, _spender, _from, _to, _value) ==
    IF L.err # OK THEN L
    ELSE IF L.allowance[<<_from, _spender>>] < _value \/ L.balances[_from] < _value
         THEN [L EXCEPT !.err = ErrLedger]
    ELSE [L EXCEPT !.balances = Move(L.balances, _from, _to, _value),
                   !.allowance[<<_from, _spender>>] = @ - _value]

\* -------------------------------------------------------------- modifiers
\* bug: the owner check is missing
onlyOwner_Anyone(sender) == TRUE

onlyOwner(sender) == sender = owner

\* bug: the dispute authority is let through as well
onlyRentalMarketplace_OrDAO(sender) ==
    sender = rentalMarketplaceAddress \/ sender = rentDisputeDAOAddress

onlyRentalMarketplace(sender) == sender = rentalMarketplaceAddress

\* bug: the dispute authority alone is not enough
onlyRentalMarketplaceOrRentDisputeDAO_MarketplaceOnly(sender) ==
    sender = rentalMarketplaceAddress

onlyRentalMarketplaceOrRentDisputeDAO(sender) ==
    sender = rentalMarketplaceAddress \/ sender = rentDisputeDAOAddress

\* bug: the funding check is skipped
checkSufficientBalance_Skipped(_payer, _amount) == TRUE

checkSufficientBalance(_payer, _amount) == checkLeaseToken(Ledger, _payer) >= _amount

PaymentExists(_paymentId) == _paymentId < numOfPayments

\* bug: the state check of pay is missing
PaymentPending_Always(_paymentId) == TRUE

PaymentPending(_paymentId) == payments[_paymentId].status = PENDING

\* bug: any funded payment passes, also one already released or refunded
PaymentPaid_AnyFunded(_paymentId) == payments[_paymentId].status # PENDING

PaymentPaid(_paymentId) == payments[_paymentId].status = PAID

invalidProtectionFee(_protectionFee) == _protectionFee > 0

\* bug: the commission fee is not validated
invalidCommissionFee_Any(_commissionFee) == TRUE

invalidCommissionFee(_commissionFee) == _commissionFee > 0

\* bug: the null identity is accepted
invalidRentalMarketplaceAddress_Any(_a) == TRUE

invalidRentalMarketplaceAddress(_a) == _a # Null

invalidRentDisputeDAOAddress(_a) == _a # Null

\* ------------------------------------------------------------ transactions
Event(_name, _args) == [name |-> _name, args |-> _args]

\* the four payment events, as the functions emit them
paymentCreated(_payer, _payee, _amount) ==
    Event("paymentCreated", <<_payer, _payee, _amount>>)

paymentPaid(payment) ==
    Event("paymentPaid", <<payment.payer, payment.payee, payment.amount>>)

\* bug: the event reports what the payee was sent, not the payment's amount
paymentReleased_Net(payment) ==
    Event("paymentReleased", <<payment.payer, payment.payee, payment.amount - commissionFee>>)

paymentReleased(payment) ==
    Event("paymentReleased", <<payment.payer, payment.payee, payment.amount>>)

paymentRefunded(payment) ==
    Event("paymentRefunded", <<payment.payer, payment.payee, payment.amount>>)

\* a transaction receipt: success or revert, the events emitted, the value returned
Receipt(_status, _logs, _ret) == [status |-> _status, logs |-> _logs, ret |-> _ret]

storage == <<numOfPayments, protectionFee, commissionFee, payments, owner,
             rentalMarketplaceAddress, rentDisputeDAOAddress>>
ledger == <<balances, allowance>>

\* a reverted transaction: nothing is written, nothing is emitted
Revert ==
    /\ receipt' = Receipt(FALSE, <<>>, <<>>)
    /\ UNCHANGED <<storage, ledger>>

\* constructor(_leaseTokenAddress, _protectionFee, _commissionFee)
Init ==
    /\ numOfPayments = 0
    /\ protectionFee \in Fee
    /\ commissionFee \in Fee
    /\ payments = [i \in PaymentId |-> ZeroPayment]
    /\ owner = Deployer
    /\ rentalMarketplaceAddress = Null
    /\ rentDisputeDAOAddress = Null
    /\ balances = [a \in Address |-> IF a = Tenant THEN MaxAmount ELSE 0]
    /\ allowance = [p \in Party \X {Escrow} |-> 0]
    /\ receipt = Receipt(TRUE, <<>>, <<>>)

\* a transaction that returns: the ledger is left as L, `emitted` is its event log
Commit(_ret, L, emitted) ==
    /\ receipt' = Receipt(TRUE, emitted, _ret)
    /\ balances' = L.balances
    /\ allowance' = L.allowance

\* ---------------------------------------------------------- createPayment
createPaymentRequire(sender, _payer, _amount) ==
    IF ~onlyRentalMarketplaceOrRentDisputeDAO(sender) THEN ErrOnlyMarketplaceOrDAO
    ELSE IF ~checkSufficientBalance(_payer, _amount) THEN ErrBalance
    ELSE OK

\* bug: payer and payee are stored the wrong way round
createPaymentStore_Swapped(_payer, _payee, _amount) ==
    [payments EXCEPT ![numOfPayments] = Payment(_payee, _payer, _amount, PENDING)]

createPaymentStore(_payer, _payee, _amount) ==
    [payments EXCEPT ![numOfPayments] = Payment(_payer, _payee, _amount, PENDING)]

createPayment(sender, _payer, _payee, _amount) ==
    /\ numOfPayments < MaxPayments
    /\ IF createPaymentRequire(sender, _payer, _amount) # OK THEN Revert
       ELSE /\ payments' = createPaymentStore(_payer, _payee, _amount)
            /\ numOfPayments' = numOfPayments + 1
            /\ Commit(<<numOfPayments' - 1>>, Ledger,
                      <<paymentCreated(_payer, _payee, _amount)>>)
            /\ UNCHANGED <<protectionFee, commissionFee, owner,
                           rentalMarketplaceAddress, rentDisputeDAOAddress>>

\* -------------------------------------------------------------------- pay
payRequire(sender, _paymentId) ==
    IF ~onlyRentalMarketplace(sender) THEN ErrOnlyRentalMarketplace
    ELSE IF ~PaymentExists(_paymentId) THEN ErrNotExists
    ELSE IF ~PaymentPending(_paymentId) THEN ErrNotPending
    ELSE OK

\* bug: a transfer the ledger refuses is taken as done
payLedger_Unchecked(payment) ==
    IF checkLeaseToken(Ledger, payment.payer) < payment.amount THEN Ledger
    ELSE transferLeaseTokenFrom(
             approveLeaseToken(Ledger, payment.payer, Escrow, payment.amount),
             Escrow, payment.payer, Escrow, payment.amount)

payLedger(payment) ==
    transferLeaseTokenFrom(
        approveLeaseToken(Ledger, payment.payer, Escrow, payment.amount),
        Escrow, payment.payer, Escrow, payment.amount)

\* how pay(_paymentId) sent by `sender` ends: OK, or the reason it reverts
payOutcome(sender, _paymentId) ==
    IF payRequire(sender, _paymentId) # OK THEN payRequire(sender, _paymentId)
    ELSE payLedger(payments[_paymentId]).err

pay(sender, _paymentId) ==
    LET payment == payments[_paymentId]
        L == payLedger(payment)
    IN  IF payOutcome(sender, _paymentId) # OK THEN Revert
        ELSE /\ payments' = [payments EXCEPT ![_paymentId].status = PAID]
             /\ Commit(<<>>, L, <<paymentPaid(payment)>>)
             /\ UNCHANGED <<numOfPayments, protectionFee, commissionFee, owner,
                            rentalMarketplaceAddress, rentDisputeDAOAddress>>

\* ---------------------------------------------------------------- release
releaseRequire(sender, _paymentId) ==
    IF ~onlyRentalMarketplace(sender) THEN ErrOnlyRentalMarketplace
    ELSE IF ~PaymentExists(_paymentId) THEN ErrNotExists
    ELSE IF ~PaymentPaid(_paymentId) THEN ErrNotPaid
    ELSE OK

\* bug: a commission above the amount is cut down to the amount, the payee is sent 0
releaseLedger_Saturating(payment) ==
    transferLeaseToken(Ledger, Escrow, payment.payee,
                       IF payment.amount < commissionFee THEN 0
                       ELSE payment.amount - commissionFee)

\* bug: the payee is sent the whole amount, no commission is kept
releaseLedger_NoCommission(payment) ==
    transferLeaseToken(Ledger, Escrow, payment.payee, payment.amount)

\* payment.amount - commissionFee is a checked uint256 subtraction
releaseLedger(payment) ==
    IF payment.amount < commissionFee THEN [Ledger EXCEPT !.err = ErrUnderflow]
    ELSE transferLeaseToken(Ledger, Escrow, payment.payee, payment.amount - commissionFee)

\* how release(_paymentId) sent by `sender` ends: OK, or the reason it reverts
releaseOutcome(sender, _paymentId) ==
    IF releaseRequire(sender, _paymentId) # OK THEN releaseRequire(sender, _paymentId)
    ELSE releaseLedger(payments[_paymentId]).err

\* bug: the record is rewritten with the net amount the payee was sent
releaseStore_NetAmount(_paymentId) ==
    [payments EXCEPT ![_paymentId].status = RELEASED,
                     ![_paymentId].amount = @ - commissionFee]

\* payment.status = PaymentStatus.RELEASED
releaseStore(_paymentId) == [payments EXCEPT ![_paymentId].status = RELEASED]

release(sender, _paymentId) ==
    LET payment == payments[_paymentId]
        L == releaseLedger(payment)
    IN  IF releaseOutcome(sender, _paymentId) # OK THEN Revert
        ELSE /\ payments' = releaseStore(_paymentId)
             /\ Commit(<<>>, L, <<paymentReleased(payment)>>)
             /\ UNCHANGED <<numOfPayments, protectionFee, commissionFee, owner,
                            rentalMarketplaceAddress, rentDisputeDAOAddress>>

\* ----------------------------------------------------------------- refund
refundRequire(sender, _paymentId) ==
    IF ~onlyRentalMarketplaceOrRentDisputeDAO(sender) THEN ErrOnlyMarketplaceOrDAO
    ELSE IF ~PaymentExists(_paymentId) THEN ErrNotExists
    ELSE IF ~PaymentPaid(_paymentId) THEN ErrNotPaid
    ELSE OK

\* bug: the refund is charged the commission, as release is
refundLedger_LessCommission(payment) ==
    IF payment.amount < commissionFee THEN [Ledger EXCEPT !.err = ErrUnderflow]
    ELSE transferLeaseToken(Ledger, Escrow, payment.payer, payment.amount - commissionFee)

refundLedger(payment) ==
    transferLeaseToken(Ledger, Escrow, payment.payer, payment.amount)

\* how refund(_paymentId) sent by `sender` ends: OK, or the reason it reverts
refundOutcome(sender, _paymentId) ==
    IF refundRequire(sender, _paymentId) # OK THEN refundRequire(sender, _paymentId)
    ELSE refundLedger(payments[_paymentId]).err

refund(sender, _paymentId) ==
    LET payment == payments[_paymentId]
        L == refundLedger(payment)
    IN  IF refundOutcome(sender, _paymentId) # OK THEN Revert
        ELSE /\ payments' = [payments EXCEPT ![_paymentId].status = REFUNDED]
             /\ Commit(<<>>, L, <<paymentRefunded(payment)>>)
             /\ UNCHANGED <<numOfPayments, protectionFee, commissionFee, owner,
                            rentalMarketplaceAddress, rentDisputeDAOAddress>>

\* ---------------------------------------------------------- withdrawToken
\* bug: the balance is sent to an account that is none of the escrow's parties
withdrawTokenLedger_Elsewhere ==
    transferLeaseToken(Ledger, Escrow, Other, checkLeaseToken(Ledger, Escrow))

withdrawTokenLedger ==
    transferLeaseToken(Ledger, Escrow, owner, checkLeaseToken(Ledger, Escrow))

withdrawTokenOutcome(sender) ==
    IF ~onlyOwner(sender) THEN ErrOnlyOwner ELSE withdrawTokenLedger.err

withdrawToken(sender) ==
    LET L == withdrawTokenLedger
    IN  IF withdrawTokenOutcome(sender) # OK THEN Revert
        ELSE /\ Commit(<<>>, L,
                       \* the event reads the balance again, after the transfer
                       <<Event("tokenWithdrawn", <<owner, checkLeaseToken(L, Escrow)>>)>>)
             /\ UNCHANGED storage

\* ---------------------------------------------------------------- setters
setProtectionFeeOutcome(sender, _protectionFee) ==
    IF ~onlyOwner(sender) THEN ErrOnlyOwner
    ELSE IF ~invalidProtectionFee(_protectionFee) THEN ErrProtectionFee
    ELSE OK

setProtectionFee(sender, _protectionFee) ==
    IF setProtectionFeeOutcome(sender, _protectionFee) # OK THEN Revert
    ELSE /\ protectionFee' = _protectionFee
         /\ Commit(<<>>, Ledger,
                   <<Event("protectionFeeSet", <<_protectionFee>>)>>)
         /\ UNCHANGED <<numOfPayments, commissionFee, payments, owner,
                        rentalMarketplaceAddress, rentDisputeDAOAddress>>

setCommissionFeeOutcome(sender, _commissionFee) ==
    IF ~onlyOwner(sender) THEN ErrOnlyOwner
    ELSE IF ~invalidCommissionFee(_commissionFee) THEN ErrCommissionFee
    ELSE OK

setCommissionFee(sender, _commissionFee) ==
    IF setCommissionFeeOutcome(sender, _commissionFee) # OK THEN Revert
    ELSE /\ commissionFee' = _commissionFee
         /\ Commit(<<>>, Ledger,
                   <<Event("commissionFeeSet", <<_commissionFee>>)>>)
         /\ UNCHANGED <<numOfPayments, protectionFee, payments, owner,
                        rentalMarketplaceAddress, rentDisputeDAOAddress>>

setRentalMarketplaceAddressOutcome(sender, _a) ==
    IF ~onlyOwner(sender) THEN ErrOnlyOwner
    ELSE IF ~invalidRentalMarketplaceAddress(_a) THEN ErrMarketplaceAddress
    ELSE OK

setRentalMarketplaceAddress(sender, _a) ==
    IF setRentalMarketplaceAddressOutcome(sender, _a) # OK THEN Revert
    ELSE /\ rentalMarketplaceAddress' = _a
         /\ Commit(<<>>, Ledger,
                   <<Event("rentalMarketplaceAddressSet", <<_a>>)>>)
         /\ UNCHANGED <<numOfPayments, protectionFee, commissionFee, payments, owner,
                        rentDisputeDAOAddress>>

setRentDisputeDAOAddressOutcome(sender, _a) ==
    IF ~onlyOwner(sender) THEN ErrOnlyOwner
    ELSE IF ~invalidRentDisputeDAOAddress(_a) THEN ErrDAOAddress
    ELSE OK

setRentDisputeDAOAddress(sender, _a) ==
    IF setRentDisputeDAOAddressOutcome(sender, _a) # OK THEN Revert
    ELSE /\ rentDisputeDAOAddress' = _a
         /\ Commit(<<>>, Ledger,
                   <<Event("rentDisputeDAOAddressSet", <<_a>>)>>)
         /\ UNCHANGED <<numOfPayments, protectionFee, commissionFee, payments, owner,
                        rentalMarketplaceAddress>>

\* ------------------------------------------------------------ getPayment
\* a view function: it returns the mapping slot, written or not
getPayment(_paymentId) ==
    /\ receipt' = Receipt(TRUE, <<>>, <<payments[_paymentId]>>)
    /\ UNCHANGED <<storage, ledger>>

\* --------------------------------------------------- the other view functions
\* a view function returning _value: nothing is written, nothing is emitted
View(_value) ==
    /\ receipt' = Receipt(TRUE, <<>>, <<_value>>)
    /\ UNCHANGED <<storage, ledger>>

getProtectionFee == View(protectionFee)
getCommissionFee == View(commissionFee)
getNumOfPayments == View(numOfPayments)
getBalance == View(checkLeaseToken(Ledger, Escrow))
getOwner == View(owner)
getContractAddress == View(Escrow)
getRentalMarketplaceAddress == View(rentalMarketplaceAddress)
getRentDisputeDAOAddress == View(rentDisputeDAOAddress)

\* ------------------------------------------------- token holders' transfers
\* The tenant spends tokens of its own on the ledger, outside the escrow:
\* the balance createPayment checked may be gone when pay executes.
holderTransfer(_from, _to, _value) ==
    LET L == transferLeaseToken(Ledger, _from, _to, _value)
    IN  /\ L.err = OK
        /\ Commit(<<>>, L, <<>>)
        /\ UNCHANGED storage

\* ------------------------------------------------- calls the ledger re-enters
\* pay, release and refund statement by statement, over the storage and the
\* ledger as they are at each point of the call.  `inside` lists the functions
\* of the escrow the ledger calls back before its transfer call returns, each
\* from inside the one before; <<>> is a ledger that just returns.
Call == [payments |-> payments, balances |-> balances, allowance |-> allowance,
         err |-> OK, logs |-> <<>>]

\* require(cond, reason)
require(W, cond, reason) == IF W.err # OK \/ cond THEN W ELSE [W EXCEPT !.err = reason]

RECURSIVE body(_, _, _, _, _)
\* the ledger's transfer call, about to return W, calls back into the escrow
reenter(W, sender, _paymentId, inside) ==
    IF inside = <<>> THEN W
    ELSE body(W, Head(inside), sender, _paymentId, Tail(inside))

payBody(W, sender, _paymentId, inside) ==
    LET payment == W.payments[_paymentId]
        W1 == require(W, onlyRentalMarketplace(sender), ErrOnlyRentalMarketplace)
        W2 == require(W1, PaymentExists(_paymentId), ErrNotExists)
        W3 == require(W2, payment.status = PENDING, ErrNotPending)
        W4 == approveLeaseToken(W3, payment.payer, Escrow, payment.amount)
        W5 == reenter(transferLeaseTokenFrom(W4, Escrow, payment.payer, Escrow, payment.amount),
                      sender, _paymentId, inside)
    IN  IF W5.err # OK THEN W5
        ELSE [W5 EXCEPT !.payments[_paymentId].status = PAID,
                        !.logs = Append(@, paymentPaid(payment))]

releaseBody(W, sender, _paymentId, inside) ==
    LET payment == W.payments[_paymentId]
        W1 == require(W, onlyRentalMarketplace(sender), ErrOnlyRentalMarketplace)
        W2 == require(W1, PaymentExists(_paymentId), ErrNotExists)
        W3 == require(W2, payment.status = PAID, ErrNotPaid)
        W4 == require(W3, payment.amount >= commissionFee, ErrUnderflow)
        W5 == reenter(transferLeaseToken(W4, Escrow, payment.payee,
                                         payment.amount - commissionFee),
                      sender, _paymentId, inside)
    IN  IF W5.err # OK THEN W5
        ELSE [W5 EXCEPT !.payments[_paymentId].status = RELEASED,
                        !.logs = Append(@, paymentReleased(payment))]

refundBody(W, sender, _paymentId, inside) ==
    LET payment == W.payments[_paymentId]
        W1 == require(W, onlyRentalMarketplaceOrRentDisputeDAO(sender), ErrOnlyMarketplaceOrDAO)
        W2 == require(W1, PaymentExists(_paymentId), ErrNotExists)
        W3 == require(W2, payment.status = PAID, ErrNotPaid)
        W4 == reenter(transferLeaseToken(W3, Escrow, payment.payer, payment.amount),
                      sender, _paymentId, inside)
    IN  IF W4.err # OK THEN W4
        ELSE [W4 EXCEPT !.payments[_paymentId].status = REFUNDED,
                        !.logs = Append(@, paymentRefunded(payment))]

Function == {"pay", "release", "refund"}

body(W, _function, sender, _paymentId, inside) ==
    CASE _function = "pay" -> payBody(W, sender, _paymentId, inside)
      [] _function = "release" -> releaseBody(W, sender, _paymentId, inside)
      [] _function = "refund" -> refundBody(W, sender, _paymentId, inside)

\* `sender` calls `outer` on _paymentId; before the ledger's transfer returns the
\* escrow is called again, `inner` on the same _paymentId by the same sender.  A
\* revert of the inner call reverts the whole transaction.
reentered(sender, _paymentId, outer, inner) ==
    LET W == body(Call, outer, sender, _paymentId, <<inner>>)
    IN  IF W.err # OK THEN Revert
        ELSE /\ payments' = W.payments
             /\ Commit(<<>>, W, W.logs)
             /\ UNCHANGED <<numOfPayments, protectionFee, commissionFee, owner,
                            rentalMarketplaceAddress, rentDisputeDAOAddress>>

\* ------------------------------------------------------------ specification
HolderTransfer ==
    \E _value \in 1..MaxAmount : holderTransfer(Tenant, Other, _value)
CreatePayment ==
    \E sender \in Sender, _payer \in Party, _amount \in Amount :
        \E _payee \in Party \ {_payer} : createPayment(sender, _payer, _payee, _amount)
Pay == \E sender \in Sender, _paymentId \in PaymentId : pay(sender, _paymentId)
Release == \E sender \in Sender, _paymentId \in PaymentId : release(sender, _paymentId)
Refund == \E sender \in Sender, _paymentId \in PaymentId : refund(sender, _paymentId)
WithdrawToken == \E sender \in Sender : withdrawToken(sender)
SetProtectionFee == \E sender \in Sender, v \in Fee : setProtectionFee(sender, v)
SetCommissionFee == \E sender \in Sender, v \in Fee : setCommissionFee(sender, v)
SetRentalMarketplaceAddress ==
    \E sender \in Sender, a \in MarketplaceInput : setRentalMarketplaceAddress(sender, a)
SetRentDisputeDAOAddress ==
    \E sender \in Sender, a \in DisputeDAOInput : setRentDisputeDAOAddress(sender, a)
GetPayment == \E _paymentId \in PaymentId : getPayment(_paymentId)

Next ==
    \/ CreatePayment
    \/ Pay
    \/ Release
    \/ Refund
    \/ WithdrawToken
    \/ SetProtectionFee
    \/ SetCommissionFee
    \/ SetRentalMarketplaceAddress
    \/ SetRentDisputeDAOAddress
    \/ HolderTransfer

Spec == Init /\ [][Next]_vars

\* The same program over a ledger that calls back into the escrow from inside
\* its transfer.
Reentered ==
    \E sender \in Sender, _paymentId \in PaymentId, outer \in Function, inner \in Function :
        reentered(sender, _paymentId, outer, inner)

NextReentrant == Next \/ Reentered

SpecReentrant == Init /\ [][NextReentrant]_vars

\* The same program, the read accessor getPayment called between the
\* transactions.
NextView == Next \/ GetPayment

SpecView == Init /\ [][NextView]_vars

\* The same program, every read accessor called between the transactions.
NextAccessors ==
    \/ Next
    \/ GetPayment
    \/ getProtectionFee
    \/ getCommissionFee
    \/ getNumOfPayments
    \/ getBalance
    \/ getOwner
    \/ getContractAddress
    \/ getRentalMarketplaceAddress
    \/ getRentDisputeDAOAddress

SpecAccessors == Init /\ [][NextAccessors]_vars

\* The same program, the owner also rebinding the dispute authority role from
\* one identity to another.
SetRentDisputeDAOAddressAgain ==
    \E sender \in Sender : setRentDisputeDAOAddress(sender, Marketplace)

NextRoles == Next \/ SetRentDisputeDAOAddressAgain

SpecRoles == Init /\ [][NextRoles]_vars

\* ================================================================= claims
\* The error classes of the specification, as sets of revert reasons.
Unauthorized == {ErrOnlyOwner, ErrOnlyRentalMarketplace, ErrOnlyMarketplaceOrDAO}
NotFound == {ErrNotExists}
InvalidState == {ErrNotPending, ErrNotPaid}

Emitted(_name) ==
    receipt.status /\ Len(receipt.logs) = 1 /\ receipt.logs[1].name = _name

\* ---- C1
StatusStep(id) ==
    \/ payments'[id].status = payments[id].status
    \/ /\ payments[id].status = PENDING
       /\ payments'[id].status = PAID
       /\ \E sender \in Sender : pay(sender, id)
    \/ /\ payments[id].status = PAID
       /\ payments'[id].status = RELEASED
       /\ \E sender \in Sender : release(sender, id)
    \/ /\ payments[id].status = PAID
       /\ payments'[id].status = REFUNDED
       /\ \E sender \in Sender : refund(sender, id)

\* C1: in every step, every payment's status stays the same or moves along
\* PENDING -> PAID (a pay step), PAID -> RELEASED (a release step) or
\* PAID -> REFUNDED (a refund step); nothing leaves RELEASED or REFUNDED and
\* nothing goes from PENDING straight to RELEASED or REFUNDED.
C1_StatusTransitions == [][\A id \in PaymentId : StatusStep(id)]_vars

\* a transaction was rejected while a released payment was in the registry
C1_Witness ==
    /\ ~receipt.status
    /\ \E id \in PaymentId : id < numOfPayments /\ payments[id].status = RELEASED

\* ---- C2
ReleaseEffect(id) ==
    LET payment == payments[id]
        net == payment.amount - commissionFee
    IN  /\ payment.status = PAID
        /\ net >= 0
        /\ balances' = Move(balances, Escrow, payment.payee, net)
        /\ balances'[payment.payee] = balances[payment.payee] + net
        /\ balances'[Escrow] = balances[Escrow] - net
        /\ payments' = [payments EXCEPT ![id].status = RELEASED]

\* C2: a release(id) that succeeds on a PAID record of amount A, the stored
\* commission fee being F at the call, credits the payee exactly A - F, debits
\* the escrow exactly A - F (F stays in escrow) and sets the status RELEASED.
C2_ReleaseNetOfCurrentFee ==
    [][receipt'.status =>
          \A sender \in Sender, id \in PaymentId :
              release(sender, id) => ReleaseEffect(id)]_vars

\* a release of a positive amount has just succeeded under a positive fee
C2_Witness ==
    /\ Emitted("paymentReleased")
    /\ receipt.logs[1].args[3] > 0
    /\ commissionFee > 0

\* ---- C3
RefundEffect(id) ==
    LET payment == payments[id]
    IN  /\ payment.status = PAID
        /\ balances' = Move(balances, Escrow, payment.payer, payment.amount)
        /\ balances'[payment.payer] = balances[payment.payer] + payment.amount
        /\ balances'[Escrow] = balances[Escrow] - payment.amount
        /\ payments' = [payments EXCEPT ![id].status = REFUNDED]

\* C3: a refund(id) that succeeds on a PAID record credits the payer exactly
\* the record's amount and debits the escrow the same, whatever the protection
\* and commission fees are, and sets the status REFUNDED.
C3_RefundFullAmount ==
    [][receipt'.status =>
          \A sender \in Sender, id \in PaymentId :
              refund(sender, id) => RefundEffect(id)]_vars

\* a refund of a positive amount has just succeeded while both fees are positive
C3_Witness ==
    /\ Emitted("paymentRefunded")
    /\ receipt.logs[1].args[3] > 0
    /\ commissionFee > 0
    /\ protectionFee > 0

\* ---- C4
PayEffect(id) ==
    LET payment == payments[id]
    IN  /\ payment.status = PENDING
        /\ balances[payment.payer] >= payment.amount
        /\ balances' = Move(balances, payment.payer, Escrow, payment.amount)
        /\ balances'[payment.payer] = balances[payment.payer] - payment.amount
        /\ balances'[Escrow] = balances[Escrow] + payment.amount
        /\ payments' = [payments EXCEPT ![id].status = PAID]

\* C4: a pay(id) that succeeds on a PENDING record moves exactly the record's
\* amount from the payer to the escrow and sets the status PAID; it succeeds
\* only if the payer holds the amount when pay executes, and a pay that does
\* not succeed leaves the status PENDING and every balance as it was.
C4_PayMovesAmountOrReverts ==
    [][IF receipt'.status
       THEN \A sender \in Sender, id \in PaymentId : pay(sender, id) => PayEffect(id)
       ELSE UNCHANGED <<storage, ledger>>]_vars

\* a transaction was rejected while the marketplace is bound and a PENDING
\* payment is no longer covered by its payer's balance
C4_Witness ==
    /\ ~receipt.status
    /\ rentalMarketplaceAddress \in Sender
    /\ \E id \in PaymentId :
          /\ id < numOfPayments
          /\ payments[id].status = PENDING
          /\ balances[payments[id].payer] < payments[id].amount

\* ---- C5
C5_State ==
    \A sender \in Sender, id \in PaymentId :
        sender # rentalMarketplaceAddress =>
            /\ payOutcome(sender, id) \in Unauthorized
            /\ releaseOutcome(sender, id) \in Unauthorized

C5_Step ==
    IF receipt'.status
    THEN \A sender \in Sender, id \in PaymentId :
             pay(sender, id) \/ release(sender, id) => sender = rentalMarketplaceAddress
    ELSE UNCHANGED <<storage, ledger>>

\* C5: pay and release succeed only for the bound marketplace identity; sent by
\* anyone else they revert as Unauthorized, whatever the id and the record's
\* status, and a reverted call changes no record, count, fee, binding or balance.
C5_PayReleaseMarketplaceOnly == []C5_State /\ [][C5_Step]_vars

\* a transaction was rejected while the two roles are bound to different
\* identities and a payment is PENDING
C5_Witness ==
    /\ ~receipt.status
    /\ rentalMarketplaceAddress # Null
    /\ rentDisputeDAOAddress # Null
    /\ rentalMarketplaceAddress # rentDisputeDAOAddress
    /\ \E id \in PaymentId : id < numOfPayments /\ payments[id].status = PENDING

\* ---- C6
C6_State ==
    \A sender \in Sender :
        LET allowed == sender \in {rentalMarketplaceAddress, rentDisputeDAOAddress}
        IN  /\ \A _payer \in Party, _amount \in Amount :
                  allowed <=> createPaymentRequire(sender, _payer, _amount) \notin Unauthorized
            /\ \A id \in PaymentId :
                  allowed <=> refundOutcome(sender, id) \notin Unauthorized

C6_Step ==
    IF receipt'.status
    THEN \A sender \in Sender :
             \/ sender \in {rentalMarketplaceAddress, rentDisputeDAOAddress}
             \/ /\ \A id \in PaymentId : ~refund(sender, id)
                /\ \A _payer \in Party, _payee \in Party, _amount \in Amount :
                      ~createPayment(sender, _payer, _payee, _amount)
    ELSE UNCHANGED <<storage, ledger>>

C7_State ==
    \A sender \in Sender, id \in PaymentId :
        /\ sender = rentalMarketplaceAddress =>
              /\ id >= numOfPayments =>
                    payOutcome(sender, id) \in NotFound /\ releaseOutcome(sender, id) \in NotFound
              /\ id < numOfPayments /\ payments[id].status # PENDING =>
                    payOutcome(sender, id) \in InvalidState
              /\ id < numOfPayments /\ payments[id].status # PAID =>
                    releaseOutcome(sender, id) \in InvalidState
        /\ sender \in {rentalMarketplaceAddress, rentDisputeDAOAddress} =>
              /\ id >= numOfPayments => refundOutcome(sender, id) \in NotFound
              /\ id < numOfPayments /\ payments[id].status # PAID =>
                    refundOutcome(sender, id) \in InvalidState

C7_Step ==
    IF receipt'.status
    THEN \A sender \in Sender, id \in PaymentId :
             /\ pay(sender, id) => id < numOfPayments /\ payments[id].status = PENDING
             /\ release(sender, id) \/ refund(sender, id) =>
                    id < numOfPayments /\ payments[id].status = PAID
    ELSE UNCHANGED <<storage, ledger>>

\* C7: sent by an authorized caller, pay, release and refund revert as NotFound
\* when id >= numOfPayments and as InvalidState when the record is not PENDING
\* (pay) or not PAID (release, refund), so a second pay, release or refund of
\* the same id reverts; a reverted call changes no record, count or balance.
C7_MissingOrWrongStateRejected == []C7_State /\ [][C7_Step]_vars

\* a transaction was rejected while the marketplace is bound and a payment is
\* already PAID
C7_Witness ==
    /\ ~receipt.status
    /\ rentalMarketplaceAddress # Null
    /\ \E id \in PaymentId : id < numOfPayments /\ payments[id].status = PAID

\* ---- C8
C8_State ==
    \A sender \in Sender, _payer \in Party, _amount \in Amount :
        /\ sender \in {rentalMarketplaceAddress, rentDisputeDAOAddress}
        /\ balances[_payer] < _amount
        => createPaymentRequire(sender, _payer, _amount) = ErrBalance

C8_Step ==
    IF receipt'.status
    THEN \A sender \in Sender, _payer \in Party, _payee \in Party, _amount \in Amount :
             createPayment(sender, _payer, _payee, _amount) => balances[_payer] >= _amount
    ELSE numOfPayments' = numOfPayments /\ payments' = payments

\* C8: createPayment by an authorized caller reverts when the payer's balance
\* is below the amount, and a reverted createPayment appends nothing: the
\* payment count and every record stay as they were.
C8_CreateNeedsFunds == []C8_State /\ [][C8_Step]_vars

\* a transaction was rejected while a role is bound, a record can still be
\* created and the tenant holds less than the largest amount
C8_Witness ==
    /\ ~receipt.status
    /\ rentDisputeDAOAddress # Null
    /\ numOfPayments < MaxPayments
    /\ balances[Tenant] < MaxAmount

\* ---- C9
CreateEffect(_payer, _payee, _amount) ==
    /\ receipt'.ret = <<numOfPayments>>
    /\ numOfPayments' = numOfPayments + 1
    /\ payments'[numOfPayments] = Payment(_payer, _payee, _amount, PENDING)
    /\ \A i \in PaymentId : i # numOfPayments => payments'[i] = payments[i]

C9_Step ==
    /\ numOfPayments' >= numOfPayments
    /\ numOfPayments' # numOfPayments =>
          /\ receipt'.status
          /\ \E sender \in Sender, _payer \in Party, _payee \in Party, _amount \in Amount :
                createPayment(sender, _payer, _payee, _amount)
    /\ receipt'.status =>
          \A sender \in Sender, _payer \in Party, _payee \in Party, _amount \in Amount :
              createPayment(sender, _payer, _payee, _amount)
                  => CreateEffect(_payer, _payee, _amount)

\* the ids from numOfPayments on have never been assigned
C9_State == \A i \in PaymentId : i >= numOfPayments => payments[i] = ZeroPayment

C10_State ==
    \A sender \in Sender :
        IF sender = owner THEN withdrawTokenOutcome(sender) = OK
        ELSE withdrawTokenOutcome(sender) \in Unauthorized

WithdrawEffect ==
    /\ balances' = Move(balances, Escrow, owner, balances[Escrow])
    /\ balances'[Escrow] = 0
    /\ balances'[owner] = balances[owner] + balances[Escrow]
    /\ UNCHANGED storage

C10_Step ==
    IF receipt'.status
    THEN \A sender \in Sender :
             withdrawToken(sender) => sender = owner /\ WithdrawEffect
    ELSE UNCHANGED <<storage, ledger>>

\* C10: withdrawToken sent by the owner succeeds, also on an empty escrow, and
\* moves the escrow's whole balance to the owner (the escrow is left with 0);
\* sent by anyone else it reverts as Unauthorized and changes no balance.
C10_WithdrawOwnerOnly == []C10_State /\ [][C10_Step]_vars

\* the owner has just withdrawn a positive balance
C10_Witness ==
    /\ Emitted("tokenWithdrawn")
    /\ balances[owner] > 0
    /\ balances[Escrow] = 0

\* ---- C11
\* C11: a withdrawToken that succeeds emits exactly one tokenWithdrawn event,
\* naming the owner and, as its amount, the escrow's balance before the call,
\* which is the quantity the call moves to the owner.
C11_WithdrawEventAmount ==
    [][receipt'.status =>
          \A sender \in Sender :
              withdrawToken(sender) =>
                  receipt'.logs = <<Event("tokenWithdrawn", <<owner, balances[Escrow]>>)>>]_vars

\* ---- C12
\* C12: in every reachable state, the one the constructor leaves included,
\* protectionFee and commissionFee are both greater than 0.
C12_FeesPositive == protectionFee > 0 /\ commissionFee > 0

\* ---- C13
InvalidParameter == {ErrProtectionFee, ErrCommissionFee, ErrMarketplaceAddress, ErrDAOAddress}

C13_State ==
    \A sender \in Sender, v \in Fee :
        /\ setProtectionFeeOutcome(sender, v) = OK <=> sender = owner /\ v > 0
        /\ setCommissionFeeOutcome(sender, v) = OK <=> sender = owner /\ v > 0
        /\ sender # owner =>
              /\ setProtectionFeeOutcome(sender, v) \in Unauthorized
              /\ setCommissionFeeOutcome(sender, v) \in Unauthorized
        /\ sender = owner /\ v = 0 =>
              /\ setProtectionFeeOutcome(sender, v) \in InvalidParameter
              /\ setCommissionFeeOutcome(sender, v) \in InvalidParameter

C13_Step ==
    /\ protectionFee' # protectionFee =>
          \E v \in Fee : v > 0 /\ protectionFee' = v /\ setProtectionFee(owner, v)
    /\ commissionFee' # commissionFee =>
          \E v \in Fee : v > 0 /\ commissionFee' = v /\ setCommissionFee(owner, v)
    /\ IF receipt'.status
       THEN \A sender \in Sender, v \in Fee :
                /\ setProtectionFee(sender, v) =>
                       /\ sender = owner /\ v > 0
                       /\ protectionFee' = v /\ commissionFee' = commissionFee
                /\ setCommissionFee(sender, v) =>
                       /\ sender = owner /\ v > 0
                       /\ commissionFee' = v /\ protectionFee' = protectionFee
       ELSE UNCHANGED <<storage, ledger>>

\* C13: setProtectionFee(v) and setCommissionFee(v) succeed exactly when the
\* sender is the owner and v > 0, and then store v in their own fee and leave
\* the other fee alone; sent by anyone else they revert as Unauthorized, sent
\* by the owner with v = 0 as InvalidParameter, and a reverted call changes
\* nothing; a fee changes in no step but a successful call of its setter.
C13_FeeSetters == []C13_State /\ [][C13_Step]_vars

\* the owner has just set the commission fee, which now holds the value given
C13_Witness ==
    /\ Emitted("commissionFeeSet")
    /\ receipt.logs[1].args[1] = commissionFee
    /\ commissionFee > 0

\* ---- C14
\* C14: every record of the registry has amount > 0; a createPayment with
\* _amount = 0 reverts and appends nothing.
C14_AmountsPositive ==
    \A id \in PaymentId : id < numOfPayments => payments[id].amount > 0

\* ---- C15
C15_Step ==
    \A id \in PaymentId :
        id < numOfPayments =>
            /\ payments'[id].payer = payments[id].payer
            /\ payments'[id].payee = payments[id].payee
            /\ payments'[id].amount = payments[id].amount

\* C15: in every step, successful or reverted, of every function, each record
\* created so far keeps its payer, its payee and its amount; release writes the
\* status only, the commission it keeps back is not taken off the amount.
C15_PartiesAndAmountFixed == [][C15_Step]_vars

\* a payment of a positive amount has just been released under a positive fee
\* and still records the amount it was created with
C15_Witness ==
    /\ Emitted("paymentReleased")
    /\ commissionFee > 0
    /\ \E id \in PaymentId :
          /\ id < numOfPayments
          /\ payments[id].status = RELEASED
          /\ payments[id].amount = receipt.logs[1].args[3]
          /\ payments[id].amount > 0

\* ---- C16
\* C16: getPayment(id) fails for every id >= numOfPayments instead of returning
\* a default record, and for id < numOfPayments it returns the stored record
\* and changes no state.
C16_GetPaymentBounds ==
    [][\A id \in PaymentId :
           getPayment(id) =>
               IF id < numOfPayments
               THEN receipt'.ret = <<payments[id]>> /\ UNCHANGED <<storage, ledger>>
               ELSE ~receipt'.status]_vars

\* ---- C17
\* the owner is the deployer; a role setter passes its checks exactly when
\* sent by the owner with a non-null identity, else it is Unauthorized (not
\* the owner) or InvalidParameter (the owner, the null identity)
C17_State ==
    /\ owner = Deployer
    /\ \A sender \in Sender, a \in MarketplaceInput :
          /\ setRentalMarketplaceAddressOutcome(sender, a) = OK <=> sender = owner /\ a # Null
          /\ setRentDisputeDAOAddressOutcome(sender, a) = OK <=> sender = owner /\ a # Null
          /\ sender # owner =>
                /\ setRentalMarketplaceAddressOutcome(sender, a) \in Unauthorized
                /\ setRentDisputeDAOAddressOutcome(sender, a) \in Unauthorized
          /\ sender = owner /\ a = Null =>
                /\ setRentalMarketplaceAddressOutcome(sender, a) \in InvalidParameter
                /\ setRentDisputeDAOAddressOutcome(sender, a) \in InvalidParameter

\* a binding changes only in a setter call by the owner with a non-null
\* identity, which binds that identity and leaves the other role alone
C17_Setters ==
    /\ owner' = owner
    /\ rentalMarketplaceAddress' # rentalMarketplaceAddress =>
          \E a \in Address \ {Null} :
              /\ rentalMarketplaceAddress' = a
              /\ rentDisputeDAOAddress' = rentDisputeDAOAddress
              /\ setRentalMarketplaceAddress(owner, a)
    /\ rentDisputeDAOAddress' # rentDisputeDAOAddress =>
          \E a \in Address \ {Null} :
              /\ rentDisputeDAOAddress' = a
              /\ rentalMarketplaceAddress' = rentalMarketplaceAddress
              /\ setRentDisputeDAOAddress(owner, a)
    /\ ~receipt'.status => UNCHANGED <<storage, ledger>>

\* `old` was bound to a role before the step and is not bound to it after
C17_Unbound(old) ==
    \/ old = rentalMarketplaceAddress /\ old # rentalMarketplaceAddress'
    \/ old = rentDisputeDAOAddress /\ old # rentDisputeDAOAddress'

\* after the step, pay and release turn `sender` away
C17_PayReleaseRefuse(sender) ==
    \A id \in PaymentId :
        /\ payOutcome(sender, id)' \in Unauthorized
        /\ releaseOutcome(sender, id)' \in Unauthorized

\* after the step, createPayment and refund turn `sender` away
C17_CreateRefundRefuse(sender) ==
    /\ \A id \in PaymentId : refundOutcome(sender, id)' \in Unauthorized
    /\ \A _payer \in Party, _amount \in Amount :
          createPaymentRequire(sender, _payer, _amount)' \in Unauthorized

\* C17 as stated: the owner never changes, the bindings change only through
\* their setters called by the owner with a non-null identity, and once a role
\* is rebound the identity it was bound to is turned away by createPayment,
\* pay, release and refund.
C17_RebindingRevokes ==
    []C17_State /\
    [][/\ C17_Setters
       /\ \A old \in Sender :
              C17_Unbound(old) =>
                  C17_PayReleaseRefuse(old) /\ C17_CreateRefundRefuse(old)]_vars

\* C17 as amended: the owner never changes, the bindings change only through
\* their setters called by the owner with a non-null identity, and once a role
\* is rebound to another identity the identity it was bound to is turned away
\* by pay and release unless it is the new marketplace binding, and by
\* createPayment and refund unless it is bound to the other role.
C17_RebindingRevokesRole ==
    []C17_State /\
    [][/\ C17_Setters
       /\ \A old \in Sender :
              C17_Unbound(old) =>
                  /\ old # rentalMarketplaceAddress' => C17_PayReleaseRefuse(old)
                  /\ old \notin {rentalMarketplaceAddress', rentDisputeDAOAddress'} =>
                         C17_CreateRefundRefuse(old)]_vars

\* the marketplace role has just been bound to the identity that used to be
\* the dispute authority, the dispute authority role is now the former
\* marketplace's, and a payment paid under an earlier binding is in the registry
C17_Witness ==
    /\ Emitted("rentalMarketplaceAddressSet")
    /\ rentalMarketplaceAddress = DisputeDAO
    /\ rentDisputeDAOAddress = Marketplace
    /\ \E id \in PaymentId : id < numOfPayments /\ payments[id].status = PAID

\* ---- C18
\* the event a record's step to status `to` must leave in the receipt
C18_Expect(id, to) ==
    LET payment == payments[id]
        _name == CASE to = PAID -> "paymentPaid"
                   [] to = RELEASED -> "paymentReleased"
                   [] to = REFUNDED -> "paymentRefunded"
    IN  <<Event(_name, <<payment.payer, payment.payee, payment.amount>>)>>

C18_Step ==
    /\ ~receipt'.status => receipt'.logs = <<>>
    /\ Len(receipt'.logs) <= 1
    \* a record appended: one paymentCreated with the fields just stored
    /\ numOfPayments' # numOfPayments =>
          LET created == payments'[numOfPayments]
          IN  receipt'.logs =
                  <<Event("paymentCreated", <<created.payer, created.payee, created.amount>>)>>
    \* a status moved: one event of the kind of the move, with the record's fields
    /\ \A id \in PaymentId :
          payments'[id].status # payments[id].status =>
              receipt'.logs = C18_Expect(id, payments'[id].status)
    \* and no payment event without its operation having committed
    /\ receipt'.logs # <<>> =>
          LET e == receipt'.logs[1]
          IN  /\ e.name = "paymentCreated" => numOfPayments' = numOfPayments + 1
              /\ e.name = "paymentPaid" =>
                    \E id \in PaymentId : payments[id].status = PENDING /\ payments'[id].status = PAID
              /\ e.name = "paymentReleased" =>
                    \E id \in PaymentId : payments[id].status = PAID /\ payments'[id].status = RELEASED
              /\ e.name = "paymentRefunded" =>
                    \E id \in PaymentId : payments[id].status = PAID /\ payments'[id].status = REFUNDED

\* C18: a transaction that appends a record emits exactly one paymentCreated
\* and one that moves a record to PAID, RELEASED or REFUNDED exactly one
\* paymentPaid, paymentReleased or paymentRefunded, each carrying the record's
\* payer, payee and amount as created (for release not the net amount sent);
\* no such event is emitted otherwise, and a reverted transaction emits none.
C18_PaymentEvents == [][C18_Step]_vars

\* a release has just reported the tenant's full payment while the landlord
\* was sent less, the commission being positive
C18_Witness ==
    /\ Emitted("paymentReleased")
    /\ receipt.logs[1].args = <<Tenant, Landlord, MaxAmount>>
    /\ commissionFee > 0
    /\ balances[Landlord] < MaxAmount

\* ---- C19
\* what the one transfer of a record's move to status `to` does to the balances
C19_OneTransfer(id, to) ==
    LET payment == payments[id]
    IN  CASE to = PAID -> Move(balances, payment.payer, Escrow, payment.amount)
          [] to = RELEASED ->
                 Move(balances, Escrow, payment.payee, payment.amount - commissionFee)
          [] to = REFUNDED -> Move(balances, Escrow, payment.payer, payment.amount)

\* C19: pay, release and refund write the new status before they call the
\* ledger, so a call of pay, release or refund on the same id made from inside
\* that ledger call finds the new status and is rejected: a transaction that
\* moves a record's status moves the tokens of that one transition, once, and
\* nothing else.
C19_NoRepeatedTransfer ==
    [][\A id \in PaymentId :
           payments'[id].status # payments[id].status =>
               balances' = C19_OneTransfer(id, payments'[id].status)]_vars

\* ---- C20
RECURSIVE C20_PaidUpTo(_)
\* the sum of the amounts of the PAID records among the first n
C20_PaidUpTo(n) ==
    IF n = 0 THEN 0
    ELSE C20_PaidUpTo(n - 1)
             + (IF payments[n - 1].status = PAID THEN payments[n - 1].amount ELSE 0)

\* C20: in every reachable state the escrow's balance is at least the sum of
\* the amounts of the PAID payments, so the ledger never refuses the transfer
\* of a refund or a release of a PAID payment for lack of escrow funds.
C20_EscrowCoversPaid ==
    /\ balances[Escrow] >= C20_PaidUpTo(numOfPayments)
    /\ \A id \in PaymentId :
          id < numOfPayments /\ payments[id].status = PAID =>
              /\ refundLedger(payments[id]).err # ErrLedger
              /\ releaseLedger(payments[id]).err # ErrLedger

\* ---- C21
\* record id is PAID and its amount is below the commission fee
C21_Short(id) ==
    /\ id < numOfPayments
    /\ payments[id].status = PAID
    /\ payments[id].amount < commissionFee

C21_State ==
    \A sender \in Sender, id \in PaymentId :
        C21_Short(id) =>
            \* release is rejected, by the checked subtraction when the sender may call it
            /\ releaseOutcome(sender, id) # OK
            /\ sender = rentalMarketplaceAddress => releaseOutcome(sender, id) = ErrUnderflow
            \* refund passes its checks and goes through when the escrow holds the amount
            /\ sender \in {rentalMarketplaceAddress, rentDisputeDAOAddress} =>
                  /\ refundRequire(sender, id) = OK
                  /\ balances[Escrow] >= payments[id].amount => refundOutcome(sender, id) = OK

C21_Step ==
    IF receipt'.status
    THEN \A sender \in Sender, id \in PaymentId :
             release(sender, id) =>
                 /\ payments[id].amount >= commissionFee
                 /\ balances'[payments[id].payee] - balances[payments[id].payee]
                        = payments[id].amount - commissionFee
    ELSE UNCHANGED <<storage, ledger>>

\* C21: release(id) on a PAID record whose amount is below the current
\* commission fee reverts (the subtraction amount - commissionFee is checked and
\* does not wrap): the status stays PAID and no balance changes; a release
\* that succeeds credits the payee amount - commissionFee >= 0; and the record
\* stays refundable, refund passing its checks as before the rejected release.
C21_ReleaseBelowFeeRejected == []C21_State /\ [][C21_Step]_vars

\* a transaction was rejected while the marketplace is bound and a PAID
\* record's amount is below the commission fee
C21_Witness ==
    /\ ~receipt.status
    /\ rentalMarketplaceAddress # Null
    /\ \E id \in PaymentId : C21_Short(id) /\ balances[Escrow] >= payments[id].amount

\* ---- C22
RECURSIVE C22_Sum(_, _)
\* the tokens the accounts S hold under the balances b
C22_Sum(S, b) ==
    IF S = {} THEN 0
    ELSE LET a == CHOOSE x \in S : TRUE
         IN  b[a] + C22_Sum(S \ {a}, b)

\* the payers, the payees, the owner and the escrow
C22_Accounts == Party \cup {owner, Escrow}

\* the step is a pay, release, refund or withdrawToken that succeeded
C22_Transfer ==
    /\ receipt'.status
    /\ \/ \E sender \in Sender, id \in PaymentId :
             pay(sender, id) \/ release(sender, id) \/ refund(sender, id)
       \/ \E sender \in Sender : withdrawToken(sender)

\* a step that changes a balance
C22_Step ==
    balances' # balances =>
        \* mints and burns no token, and is
        /\ C22_Sum(Address, balances') = C22_Sum(Address, balances)
        \* a holder spending its own tokens on the ledger, or
        /\ \/ \E _value \in 1..MaxAmount : holderTransfer(Tenant, Other, _value)
           \* one transfer between two of the accounts, made by one of the four
           \/ /\ C22_Transfer
              /\ \E _from \in C22_Accounts, _to \in C22_Accounts, _value \in 1..MaxAmount :
                    balances' = Move(balances, _from, _to, _value)
              /\ C22_Sum(C22_Accounts, balances') = C22_Sum(C22_Accounts, balances)

\* C22: in every step of the escrow, successful or reverted, the balances of
\* the payers, the payees, the owner and the escrow add up to what they did
\* before; a balance changes only in a successful pay, release, refund or
\* withdrawToken, which debits one of these accounts and credits another the
\* same quantity; createPayment, the setters, the read accessors and every
\* reverted call change no balance.
C22_TokenConservation == [][C22_Step]_vars

\* the owner has just withdrawn the commission of a released payment: the
\* tenant's tokens are now the owner's
C22_Witness ==
    /\ Emitted("tokenWithdrawn")
    /\ balances[owner] = MaxAmount
    /\ \E id \in PaymentId : id < numOfPayments /\ payments[id].status = RELEASED

====
